---- MODULE Spec2Model ----
(***************************************************************************)
(* The Snake game engine of observer-pattern/backend/game.py: the          *)
(* GameState owned by SnakeGame, the append-only game_state table of       *)
(* GameDatabase, and the observer list that every effective tick and reset *)
(* notifies.  One action per public method of SnakeGame; every action is   *)
(* the whole method, its save_state and _notify_observers calls included.  *)
(***************************************************************************)
EXTENDS Integers, Sequences, FiniteSets, TLC

VARIABLES
    state,      \* SnakeGame.state, the live GameState
    db,         \* the rows of table game_state, in insertion order
    observers,  \* SnakeGame.observers, a list of callbacks
    notified,   \* the observer invocations made by the last call, in order
    printed,    \* the observers whose exception the last call caught and printed
    escaped,    \* whether an exception left the last call
    lastOp,     \* the method called last
    lastArg,    \* its argument (a direction, an observer, or "none")
    \* callers on threads of their own, a method call taken statement by statement
    pc,         \* where each thread is in the method it called
    lock,       \* SnakeGame.lock: the thread that holds it, 0 when it is free
    req,        \* the call each thread is in
    idx,        \* the position of the list iterator of each thread's notification
    loop,       \* each thread's notification: the list at its start, the observers
                \* subscribed or unsubscribed since, the observers invoked
    \* the server of main.py around the engine, all of it on one event loop
    game_started,           \* the global game_started
    active_player,          \* the global active_player, 0 for None
    spectator_connections,  \* the keys of the dict spectator_connections
    connection_counter,     \* the global connection_counter
    handler,    \* where the websocket_spectate handler of each connection is
    tasks,      \* the send_update_to_spectator tasks created and not yet run, in order
    sent,       \* the message the last step put on a spectator's socket
    \* a caller of the engine that keeps what get_state returned
    snaps,      \* the values get_state has returned, as they are now
    applied,    \* the direction the last effective tick moved in, "none" before one
    \* the requests main.py has served
    served,     \* the request or driver iteration served last, with its status code
    unstarted,  \* a request has reset the game and none has started it since
    \* the shop of strategy-pattern/backend
    carts,                       \* the dict carts: cart id -> ShoppingCart
    registered_payment_methods,  \* the dict registered_payment_methods: id -> name
    reply       \* what the last call or request of the shop returned

engineVars == <<state, db, observers, notified, printed, escaped, lastOp, lastArg>>

threadVars == <<pc, lock, req, idx, loop>>

serverVars == <<game_started, active_player, spectator_connections, connection_counter,
                handler, tasks, sent>>

callerVars == <<snaps, applied>>

requestVars == <<served, unstarted>>

shopVars == <<carts, registered_payment_methods, reply>>

vars == <<state, db, observers, notified, printed, escaped, lastOp, lastArg,
          pc, lock, req, idx, loop,
          game_started, active_player, spectator_connections, connection_counter,
          handler, tasks, sent,
          snaps, applied, served, unstarted,
          carts, registered_payment_methods, reply>>

(***************************************************************************)
(* Program constants and the bounds of the model.                          *)
(***************************************************************************)
GRID_WIDTH == 20
GRID_HEIGHT == 20
FRUIT_REWARD == 10

\* rows the table may hold: every effective tick and every reset adds one
MaxRows == 3
\* observer callbacks 1..MaxObservers exist
MaxObservers == 2
\* a new fruit is drawn at most this many columns and rows from the new head
FruitRadius == 1
\* threads 1..MaxThreads call the engine
MaxThreads == 2
\* spectators that connect: connection ids 0..MaxConnections-1
MaxConnections == 2
\* ids of the tasks that serve player_connect requests
MaxPlayers == 2
\* values of get_state a caller keeps
MaxSnapshots == 2

\* the items a cart holds at most
MaxItems == 2

Directions == {"UP", "DOWN", "LEFT", "RIGHT"}

Position(px, py) == [x |-> px, y |-> py]

Cells == {Position(px, py) : px \in 0..(GRID_WIDTH - 1), py \in 0..(GRID_HEIGHT - 1)}

GameState(sn, fr, sc, go, dir, hs) ==
    [snake |-> sn, fruit |-> fr, score |-> sc, game_over |-> go,
     direction |-> dir, high_score |-> hs]

Observers == 1..MaxObservers

\* Observer 1 stands for a callback that raises whenever it is invoked (as
\* notify_spectator does when there is no running event loop); the others return.
Raises(o) == o = 1

(***************************************************************************)
(* GameDatabase.                                                           *)
(***************************************************************************)
\* INTEGER PRIMARY KEY: one more than the largest id in the table
NextId(rows) ==
    IF rows = <<>> THEN 1
    ELSE 1 + (CHOOSE m \in {rows[i].id : i \in 1..Len(rows)} :
                  \A i \in 1..Len(rows) : rows[i].id <= m)

\* the row INSERTed for a state: game_over is stored as 1 or 0
save_state_mut(rows, st) ==
    IF rows = <<>> THEN <<[id |-> 1, snake |-> st.snake, fruit |-> st.fruit,
                            score |-> st.score,
                            game_over |-> IF st.game_over THEN 1 ELSE 0,
                            direction |-> st.direction, high_score |-> st.high_score]>>
    ELSE [rows EXCEPT ![Len(rows)] =
              [id |-> rows[Len(rows)].id, snake |-> st.snake, fruit |-> st.fruit,
               score |-> st.score, game_over |-> IF st.game_over THEN 1 ELSE 0,
               direction |-> st.direction, high_score |-> st.high_score]]

save_state(rows, st) ==
    Append(rows, [id |-> NextId(rows), snake |-> st.snake, fruit |-> st.fruit,
                  score |-> st.score, game_over |-> IF st.game_over THEN 1 ELSE 0,
                  direction |-> st.direction, high_score |-> st.high_score])

\* a row read back as a GameState: bool(row[3])
RowState(r) ==
    GameState(r.snake, r.fruit, r.score, r.game_over # 0, r.direction, r.high_score)

HasRows(rows) == rows # <<>>

\* ORDER BY id ASC: the oldest row
get_latest_state_mut(rows) ==
    RowState(CHOOSE r \in {rows[i] : i \in 1..Len(rows)} :
                 \A i \in 1..Len(rows) : rows[i].id >= r.id)

\* ORDER BY id DESC LIMIT 1; only used when HasRows(rows)
get_latest_state(rows) ==
    RowState(CHOOSE r \in {rows[i] : i \in 1..Len(rows)} :
                 \A i \in 1..Len(rows) : rows[i].id <= r.id)

(***************************************************************************)
(* SnakeGame: the pure parts of its methods.                               *)
(***************************************************************************)
InitialSnake == <<Position(10, 10), Position(9, 10), Position(8, 10)>>

NewGame(hs) == GameState(InitialSnake, Position(15, 15), 0, FALSE, "RIGHT", hs)

\* the test of game_over forgotten: an ended game is resumed as it is
load_or_create_state_mut(rows) ==
    IF HasRows(rows) THEN get_latest_state(rows) ELSE NewGame(0)

load_or_create_state(rows) ==
    IF HasRows(rows) /\ ~get_latest_state(rows).game_over
    THEN get_latest_state(rows)
    ELSE NewGame(IF HasRows(rows) THEN get_latest_state(rows).high_score ELSE 0)

opposite(d) ==
    CASE d = "UP" -> "DOWN"
      [] d = "DOWN" -> "UP"
      [] d = "LEFT" -> "RIGHT"
      [] d = "RIGHT" -> "LEFT"

NewDirection_mut(cur, d) == d

\* the direction after set_direction(d) when the current one is cur
NewDirection(cur, d) == IF cur # opposite(d) THEN d ELSE cur

get_direction_vector(d) ==
    CASE d = "UP" -> <<0, -1>>
      [] d = "DOWN" -> <<0, 1>>
      [] d = "LEFT" -> <<-1, 0>>
      [] d = "RIGHT" -> <<1, 0>>

NewHead(st) ==
    Position(st.snake[1].x + get_direction_vector(st.direction)[1],
             st.snake[1].y + get_direction_vector(st.direction)[2])

HitsWall_mut(p) == p.x < 0 \/ p.x > GRID_WIDTH \/ p.y < 0 \/ p.y > GRID_HEIGHT

HitsWall(p) == p.x < 0 \/ p.x >= GRID_WIDTH \/ p.y < 0 \/ p.y >= GRID_HEIGHT

\* new_head in self.state.snake, checked before the tail moves
HitsSelf_mut(p, sn) == \E i \in 1..(Len(sn) - 1) : sn[i] = p

\* the self check left out
HitsSelf_off(p, sn) == FALSE

HitsSelf(p, sn) == \E i \in 1..Len(sn) : sn[i] = p

GameOver_mut(st) ==
    [st EXCEPT !.game_over = TRUE, !.high_score = st.score]

\* the fold forgotten
GameOver_nofold(st) == [st EXCEPT !.game_over = TRUE]

\* the game-over branch of tick: the score is folded into the high score
GameOver(st) ==
    [st EXCEPT !.game_over = TRUE,
               !.high_score = IF st.score > st.high_score THEN st.score ELSE @]

Grow_mut(st, nh, f) ==
    [st EXCEPT !.snake = <<nh>> \o SubSeq(st.snake, 1, Len(st.snake) - 1),
               !.score = @ + FRUIT_REWARD, !.fruit = f]

\* insert(0, new_head) when the new head is on the fruit; f is the new fruit
Grow(st, nh, f) ==
    [st EXCEPT !.snake = <<nh>> \o st.snake, !.score = @ + FRUIT_REWARD, !.fruit = f]

\* insert(0, new_head) then pop()
Move(st, nh) ==
    [st EXCEPT !.snake = SubSeq(<<nh>> \o st.snake, 1, Len(st.snake))]

Eats(st) ==
    /\ ~st.game_over
    /\ ~HitsWall(NewHead(st))
    /\ ~HitsSelf(NewHead(st), st.snake)
    /\ NewHead(st) = st.fruit

\* the draws of random.randint the model follows: the cells of the grid within
\* FruitRadius of p, the cell p itself among them
Near(p) ==
    {c \in Cells : /\ c.x - p.x \in (-FruitRadius)..FruitRadius
                   /\ c.y - p.y \in (-FruitRadius)..FruitRadius}

\* _generate_fruit: a cell of the grid, whether or not the snake is on it; it is
\* only called when a fruit is eaten
generate_fruit(st) == IF Eats(st) THEN Near(NewHead(st)) ELSE {st.fruit}

Effective_mut(st) == TRUE

\* the early return of tick: a tick acts only while the game is not over
Effective(st) == ~st.game_over

\* the state a tick of a running game leaves, f being the fruit drawn
TickState(st, f) ==
    IF HitsWall(NewHead(st)) THEN GameOver(st)
    ELSE IF HitsSelf(NewHead(st), st.snake) THEN GameOver(st)
    ELSE IF NewHead(st) = st.fruit THEN Grow(st, NewHead(st), f)
    ELSE Move(st, NewHead(st))

ResetState_mut(st) == NewGame(0)

ResetState(st) == NewGame(st.high_score)

(***************************************************************************)
(* _notify_observers: the for loop over the observer list from index i,    *)
(* each call in its own try/except.                                        *)
(***************************************************************************)
RECURSIVE NotifyFrom(_, _, _)
NotifyFrom(obs, i, st) ==
    IF i > Len(obs) THEN [calls |-> <<>>, printed |-> <<>>, escaped |-> FALSE]
    ELSE LET rest == NotifyFrom(obs, i + 1, st)
         IN  [calls |-> <<[observer |-> obs[i], state |-> st]>> \o rest.calls,
              printed |-> (IF Raises(obs[i]) THEN <<obs[i]>> ELSE <<>>) \o rest.printed,
              escaped |-> rest.escaped]

\* the loop without its try/except: the first exception ends it
RECURSIVE NotifyUncaught(_, _, _)
NotifyUncaught(obs, i, st) ==
    IF i > Len(obs) THEN [calls |-> <<>>, printed |-> <<>>, escaped |-> FALSE]
    ELSE IF Raises(obs[i])
         THEN [calls |-> <<[observer |-> obs[i], state |-> st]>>,
               printed |-> <<>>, escaped |-> TRUE]
         ELSE LET rest == NotifyUncaught(obs, i + 1, st)
              IN  [calls |-> <<[observer |-> obs[i], state |-> st]>> \o rest.calls,
                   printed |-> rest.printed, escaped |-> rest.escaped]

notify_observers_mut(obs, st) == NotifyUncaught(obs, 1, st)

\* the loop started one entry too late
notify_observers_skip(obs, st) == NotifyFrom(obs, 2, st)

notify_observers(obs, st) == NotifyFrom(obs, 1, st)

NoCalls == [calls |-> <<>>, printed |-> <<>>, escaped |-> FALSE]

Contains_mut(obs, o) == FALSE

Contains(obs, o) == \E i \in 1..Len(obs) : obs[i] = o

\* list.remove: the first occurrence goes
Remove(obs, o) ==
    LET k == CHOOSE i \in 1..Len(obs) : obs[i] = o /\ \A j \in 1..(i - 1) : obs[j] # o
    IN  SubSeq(obs, 1, k - 1) \o SubSeq(obs, k + 1, Len(obs))

(***************************************************************************)
(* The stores a process may find at start: the table is empty, or its      *)
(* latest row is a snapshot an earlier run of the game left there.         *)
(***************************************************************************)
\* a running game of one eaten fruit, its head in the top right corner cell
NearTopRight ==
    GameState(<<Position(19, 0), Position(18, 0), Position(17, 0), Position(16, 0)>>,
              Position(19, 1), 10, FALSE, "RIGHT", 0)

\* a running game in the bottom left corner cell, below an earlier high score
NearBottomLeft ==
    GameState(<<Position(0, 19), Position(1, 19), Position(2, 19)>>,
              Position(10, 10), 0, FALSE, "LEFT", 30)

\* a running game of three eaten fruits whose snake has coiled: the cell left of
\* the head is the tail, the cell above it the fourth segment
Coiled ==
    GameState(<<Position(17, 2), Position(18, 2), Position(18, 1), Position(17, 1),
                Position(16, 1), Position(16, 2)>>,
              Position(5, 5), 30, FALSE, "LEFT", 30)

\* a game that ended on the right wall
Ended ==
    GameState(<<Position(19, 5), Position(18, 5), Position(17, 5), Position(16, 5)>>,
              Position(3, 3), 10, TRUE, "RIGHT", 30)

StoredSnapshots == {NearTopRight, NearBottomLeft, Coiled, Ended}

InitStores == {<<>>} \cup {save_state(<<>>, s) : s \in StoredSnapshots}

\* the rows of n games that ended before the program started
RECURSIVE Played(_)
Played(n) == IF n <= 0 THEN <<>> ELSE save_state(Played(n - 1), Ended)

(***************************************************************************)
(* The state machine.                                                      *)
(***************************************************************************)
Threads == 1..MaxThreads

NoCall == [op |-> "none", arg |-> "none", outer |-> "none"]

NoLoop == [start |-> <<>>, touched |-> {}, calls |-> <<>>]

Conns == 0..(MaxConnections - 1)

Players == 1..MaxPlayers

NoMessage == [conn |-> -1, cause |-> "none", handed |-> <<>>, data |-> <<>>]

\* the globals of main.py as the module is loaded
ServerIdle ==
    /\ game_started = FALSE
    /\ active_player = 0
    /\ spectator_connections = {}
    /\ connection_counter = 0
    /\ handler = [c \in Conns |-> "none"]
    /\ tasks = <<>>
    /\ sent = NoMessage

\* get_state has not been called, no tick has been made
CallersIdle ==
    /\ snaps = <<>>
    /\ applied = "none"

NoRequest == [name |-> "none", arg |-> "none", status |-> 0]

\* no request has been served
RequestsIdle ==
    /\ served = NoRequest
    /\ unstarted = FALSE

\* no call has been answered
NoReply == [call |-> "none", arg |-> "none", bad |-> FALSE, status |-> 0]

\* the globals of strategy-pattern/backend/main.py as the module is loaded
ShopIdle ==
    /\ carts = <<>>
    /\ registered_payment_methods = <<>>
    /\ reply = NoReply

\* no thread is in a call
ThreadsIdle ==
    /\ pc = [t \in Threads |-> "idle"]
    /\ lock = 0
    /\ req = [t \in Threads |-> NoCall]
    /\ idx = [t \in Threads |-> 0]
    /\ loop = [t \in Threads |-> NoLoop]

Report(r) ==
    /\ notified' = r.calls
    /\ printed' = r.printed
    /\ escaped' = r.escaped

\* SnakeGame.__init__
Init ==
    /\ db \in InitStores
    /\ state = load_or_create_state(db)
    /\ observers = <<>>
    /\ notified = <<>>
    /\ printed = <<>>
    /\ escaped = FALSE
    /\ lastOp = "init"
    /\ lastArg = "none"
    /\ ThreadsIdle
    /\ ServerIdle
    /\ CallersIdle
    /\ RequestsIdle
    /\ ShopIdle

subscribe(o) ==
    /\ observers' = IF ~Contains(observers, o) THEN Append(observers, o) ELSE observers
    /\ Report(NoCalls)
    /\ lastOp' = "subscribe"
    /\ lastArg' = o
    /\ UNCHANGED <<state, db>>

unsubscribe(o) ==
    /\ observers' = IF Contains(observers, o) THEN Remove(observers, o) ELSE observers
    /\ Report(NoCalls)
    /\ lastOp' = "unsubscribe"
    /\ lastArg' = o
    /\ UNCHANGED <<state, db>>

set_direction(d) ==
    /\ state' = [state EXCEPT !.direction = NewDirection(@, d)]
    /\ Report(NoCalls)
    /\ lastOp' = "set_direction"
    /\ lastArg' = d
    /\ UNCHANGED <<db, observers>>

tick ==
    /\ lastOp' = "tick"
    /\ lastArg' = "none"
    /\ UNCHANGED observers
    /\ IF ~Effective(state)
       THEN /\ Report(NoCalls)
            /\ UNCHANGED <<state, db>>
       ELSE /\ Len(db) < MaxRows
            /\ \E f \in generate_fruit(state) :
                   /\ state' = TickState(state, f)
                   /\ db' = save_state(db, TickState(state, f))
                   /\ Report(notify_observers(observers, TickState(state, f)))

reset_game ==
    /\ Len(db) < MaxRows
    /\ state' = ResetState(state)
    /\ db' = save_state(db, ResetState(state))
    /\ Report(notify_observers(observers, ResetState(state)))
    /\ lastOp' = "reset_game"
    /\ lastArg' = "none"
    /\ UNCHANGED observers

\* one caller: every method runs from its call to its return in one step
Next ==
    \/ \E o \in Observers : subscribe(o) /\ UNCHANGED <<threadVars, serverVars, callerVars, requestVars, shopVars>>
    \/ \E o \in Observers : unsubscribe(o) /\ UNCHANGED <<threadVars, serverVars, callerVars, requestVars, shopVars>>
    \/ \E d \in Directions : set_direction(d) /\ UNCHANGED <<threadVars, serverVars, callerVars, requestVars, shopVars>>
    \/ tick /\ UNCHANGED <<threadVars, serverVars, callerVars, requestVars, shopVars>>
    \/ reset_game /\ UNCHANGED <<threadVars, serverVars, callerVars, requestVars, shopVars>>

Spec == Init /\ [][Next]_vars

(***************************************************************************)
(* Callers on several threads.  set_direction, tick, reset_game and        *)
(* get_state run inside `with self.lock`; subscribe and unsubscribe take   *)
(* no lock; _notify_observers runs inside the lock of tick and reset_game  *)
(* and walks self.observers with a list iterator.                          *)
(***************************************************************************)
\* the stores the threads start from
ThreadStores == {<<>>, save_state(<<>>, NearTopRight)}

\* the callers find a game under way: every observer is subscribed, or none is
ThreadInit ==
    /\ db \in ThreadStores
    /\ state = load_or_create_state(db)
    /\ observers \in {<<>>, [i \in 1..MaxObservers |-> i]}
    /\ notified = <<>>
    /\ printed = <<>>
    /\ escaped = FALSE
    /\ lastOp = "init"
    /\ lastArg = "none"
    /\ ThreadsIdle
    /\ ServerIdle
    /\ CallersIdle
    /\ RequestsIdle
    /\ ShopIdle

\* the labels inside `with self.lock`
Critical == {"sd_body", "gs_copy", "tick_check", "tick_pop", "reset_body", "notify",
             "loop_done"}

\* threads inside an observer callback that has called back into the engine
Nested(t) == req[t].outer # "none"

\* a thread inside `with self.lock`, waiting in a nested call included
InsideLock(t) == pc[t] \in Critical \/ (Nested(t) /\ pc[t] = "acquire")

Locked == {"set_direction", "tick", "reset_game", "get_state"}

FirstLabel(op) ==
    CASE op = "set_direction" -> "sd_body"
      [] op = "get_state" -> "gs_copy"
      [] op = "tick" -> "tick_check"
      [] op = "reset_game" -> "reset_body"

\* a thread calls a method of the engine; each thread is one caller and one call
Call(t, op, arg) ==
    /\ pc[t] = "idle"
    /\ req' = [req EXCEPT ![t] = [op |-> op, arg |-> arg, outer |-> "none"]]
    /\ pc' = [pc EXCEPT ![t] = IF op \in Locked THEN "acquire"
                               ELSE IF op = "subscribe" THEN "sub_check"
                               ELSE "unsub_check"]
    /\ UNCHANGED <<engineVars, lock, idx, loop>>

CanAcquire_mut(l) == TRUE

\* Lock.acquire: threading.Lock is not reentrant, its holder waits like any other
CanAcquire(l) == l = 0

\* with self.lock: entered
Acquire(t) ==
    /\ pc[t] = "acquire"
    /\ CanAcquire(lock)
    /\ lock' = t
    /\ pc' = [pc EXCEPT ![t] = FirstLabel(req[t].op)]
    /\ UNCHANGED <<engineVars, req, idx, loop>>

\* with self.lock: left; a call made from a callback returns into the loop
Release(t) ==
    /\ pc[t] = "release"
    /\ lock' = 0
    /\ IF Nested(t)
       THEN /\ pc' = [pc EXCEPT ![t] = "notify"]
            /\ req' = [req EXCEPT ![t] = [op |-> req[t].outer, arg |-> "none",
                                          outer |-> "none"]]
            /\ UNCHANGED loop
       ELSE /\ pc' = [pc EXCEPT ![t] = "done"]
            /\ req' = [req EXCEPT ![t] = NoCall]
            /\ loop' = [loop EXCEPT ![t] = NoLoop]
    /\ UNCHANGED <<engineVars, idx>>

\* the body of set_direction
SetDirectionBody(t) ==
    /\ pc[t] = "sd_body"
    /\ state' = [state EXCEPT !.direction = NewDirection(@, req[t].arg)]
    /\ pc' = [pc EXCEPT ![t] = "release"]
    /\ UNCHANGED <<db, observers, notified, printed, escaped, lastOp, lastArg,
                   lock, req, idx, loop>>

\* the body of get_state: the copy is taken
GetStateCopy(t) ==
    /\ pc[t] = "gs_copy"
    /\ pc' = [pc EXCEPT ![t] = "release"]
    /\ UNCHANGED <<engineVars, lock, req, idx, loop>>

\* _notify_observers is entered: iter(self.observers)
StartLoop(t) ==
    /\ idx' = [idx EXCEPT ![t] = 1]
    /\ loop' = [loop EXCEPT ![t] = [start |-> observers, touched |-> {}, calls |-> <<>>]]

\* tick up to snake.insert(0, new_head): the early return, the two collisions
\* with their save, or the insert
TickCheck(t) ==
    /\ pc[t] = "tick_check"
    /\ UNCHANGED <<observers, notified, printed, escaped, lastOp, lastArg, lock, req>>
    /\ IF ~Effective(state)
       THEN /\ pc' = [pc EXCEPT ![t] = "release"]
            /\ UNCHANGED <<state, db, idx, loop>>
       ELSE IF HitsWall(NewHead(state)) \/ HitsSelf(NewHead(state), state.snake)
       THEN /\ state' = GameOver(state)
            /\ db' = save_state(db, GameOver(state))
            /\ StartLoop(t)
            /\ pc' = [pc EXCEPT ![t] = "notify"]
       ELSE /\ state' = [state EXCEPT !.snake = <<NewHead(state)>> \o @]
            /\ pc' = [pc EXCEPT ![t] = "tick_pop"]
            /\ UNCHANGED <<db, idx, loop>>

\* the state after the fruit test of a tick whose new head is already inserted
AfterInsert(st, f) ==
    IF st.snake[1] = st.fruit
    THEN [st EXCEPT !.score = @ + FRUIT_REWARD, !.fruit = f]
    ELSE [st EXCEPT !.snake = SubSeq(@, 1, Len(@) - 1)]

\* tick from the fruit test to the save
TickPop(t) ==
    /\ pc[t] = "tick_pop"
    /\ \E f \in (IF state.snake[1] = state.fruit THEN Near(state.snake[1])
                  ELSE {state.fruit}) :
           /\ state' = AfterInsert(state, f)
           /\ db' = save_state(db, AfterInsert(state, f))
    /\ StartLoop(t)
    /\ pc' = [pc EXCEPT ![t] = "notify"]
    /\ UNCHANGED <<observers, notified, printed, escaped, lastOp, lastArg, lock, req>>

\* reset_game up to its save
ResetBody(t) ==
    /\ pc[t] = "reset_body"
    /\ state' = ResetState(state)
    /\ db' = save_state(db, ResetState(state))
    /\ StartLoop(t)
    /\ pc' = [pc EXCEPT ![t] = "notify"]
    /\ UNCHANGED <<observers, notified, printed, escaped, lastOp, lastArg, lock, req>>

\* one turn of `for observer in self.observers`: the iterator is exhausted, or
\* the entry at its position is invoked; the callback returns (or raises and is
\* caught), or it calls get_state on the engine
NotifyStep(t) ==
    /\ pc[t] = "notify"
    /\ UNCHANGED <<engineVars, lock>>
    /\ IF idx[t] > Len(observers)
       THEN /\ pc' = [pc EXCEPT ![t] = "loop_done"]
            /\ UNCHANGED <<req, idx, loop>>
       ELSE /\ idx' = [idx EXCEPT ![t] = @ + 1]
            /\ loop' = [loop EXCEPT ![t].calls = Append(@, observers[idx[t]])]
            /\ \/ UNCHANGED <<pc, req>>
               \/ /\ ~Raises(observers[idx[t]])
                  /\ pc' = [pc EXCEPT ![t] = "acquire"]
                  /\ req' = [req EXCEPT ![t] = [op |-> "get_state", arg |-> "none",
                                                outer |-> req[t].op]]

\* _notify_observers has returned
LoopDone(t) ==
    /\ pc[t] = "loop_done"
    /\ pc' = [pc EXCEPT ![t] = "release"]
    /\ UNCHANGED <<engineVars, lock, req, idx, loop>>

\* the notification of thread t is under way
InLoop(t) == pc[t] = "notify" \/ Nested(t)

\* a change of the registry is noted in the notifications under way
Touch(o) ==
    loop' = [t \in Threads |->
                IF InLoop(t) THEN [loop[t] EXCEPT !.touched = @ \cup {o}] ELSE loop[t]]

\* subscribe: `if observer not in self.observers`
SubscribeCheck(t) ==
    /\ pc[t] = "sub_check"
    /\ IF ~Contains(observers, req[t].arg)
       THEN pc' = [pc EXCEPT ![t] = "sub_append"] /\ UNCHANGED req
       ELSE pc' = [pc EXCEPT ![t] = "done"] /\ req' = [req EXCEPT ![t] = NoCall]
    /\ UNCHANGED <<engineVars, lock, idx, loop>>

\* subscribe: self.observers.append(observer)
SubscribeAppend(t) ==
    /\ pc[t] = "sub_append"
    /\ observers' = Append(observers, req[t].arg)
    /\ Touch(req[t].arg)
    /\ pc' = [pc EXCEPT ![t] = "done"]
    /\ req' = [req EXCEPT ![t] = NoCall]
    /\ UNCHANGED <<state, db, notified, printed, escaped, lastOp, lastArg, lock, idx>>

\* unsubscribe: `if observer in self.observers`
UnsubscribeCheck(t) ==
    /\ pc[t] = "unsub_check"
    /\ IF Contains(observers, req[t].arg)
       THEN pc' = [pc EXCEPT ![t] = "unsub_remove"] /\ UNCHANGED req
       ELSE pc' = [pc EXCEPT ![t] = "done"] /\ req' = [req EXCEPT ![t] = NoCall]
    /\ UNCHANGED <<engineVars, lock, idx, loop>>

\* unsubscribe: self.observers.remove(observer); when another thread has removed
\* it since the test, remove raises ValueError and the list stays as it is
UnsubscribeRemove(t) ==
    /\ pc[t] = "unsub_remove"
    /\ IF Contains(observers, req[t].arg)
       THEN observers' = Remove(observers, req[t].arg) /\ Touch(req[t].arg)
       ELSE UNCHANGED <<observers, loop>>
    /\ pc' = [pc EXCEPT ![t] = "done"]
    /\ req' = [req EXCEPT ![t] = NoCall]
    /\ UNCHANGED <<state, db, notified, printed, escaped, lastOp, lastArg, lock, idx>>

ThreadNext ==
    \/ \E t \in Threads : \E op \in {"tick", "reset_game", "get_state"} :
           Call(t, op, "none") /\ UNCHANGED <<serverVars, callerVars, requestVars, shopVars>>
    \/ \E t \in Threads : \E d \in Directions : Call(t, "set_direction", d) /\ UNCHANGED <<serverVars, callerVars, requestVars, shopVars>>
    \/ \E t \in Threads : \E o \in Observers : Call(t, "subscribe", o) /\ UNCHANGED <<serverVars, callerVars, requestVars, shopVars>>
    \/ \E t \in Threads : \E o \in Observers : Call(t, "unsubscribe", o) /\ UNCHANGED <<serverVars, callerVars, requestVars, shopVars>>
    \/ \E t \in Threads : Acquire(t) /\ UNCHANGED <<serverVars, callerVars, requestVars, shopVars>>
    \/ \E t \in Threads : Release(t) /\ UNCHANGED <<serverVars, callerVars, requestVars, shopVars>>
    \/ \E t \in Threads : SetDirectionBody(t) /\ UNCHANGED <<serverVars, callerVars, requestVars, shopVars>>
    \/ \E t \in Threads : GetStateCopy(t) /\ UNCHANGED <<serverVars, callerVars, requestVars, shopVars>>
    \/ \E t \in Threads : TickCheck(t) /\ UNCHANGED <<serverVars, callerVars, requestVars, shopVars>>
    \/ \E t \in Threads : TickPop(t) /\ UNCHANGED <<serverVars, callerVars, requestVars, shopVars>>
    \/ \E t \in Threads : ResetBody(t) /\ UNCHANGED <<serverVars, callerVars, requestVars, shopVars>>
    \/ \E t \in Threads : NotifyStep(t) /\ UNCHANGED <<serverVars, callerVars, requestVars, shopVars>>
    \/ \E t \in Threads : LoopDone(t) /\ UNCHANGED <<serverVars, callerVars, requestVars, shopVars>>
    \/ \E t \in Threads : SubscribeCheck(t) /\ UNCHANGED <<serverVars, callerVars, requestVars, shopVars>>
    \/ \E t \in Threads : SubscribeAppend(t) /\ UNCHANGED <<serverVars, callerVars, requestVars, shopVars>>
    \/ \E t \in Threads : UnsubscribeCheck(t) /\ UNCHANGED <<serverVars, callerVars, requestVars, shopVars>>
    \/ \E t \in Threads : UnsubscribeRemove(t) /\ UNCHANGED <<serverVars, callerVars, requestVars, shopVars>>

SpecThreads == ThreadInit /\ [][ThreadNext]_vars

(***************************************************************************)
(* The server of observer-pattern/backend/main.py.  Every endpoint is an   *)
(* `async def` on the one event loop, so the code between two awaits runs  *)
(* as one step.  A spectator's observer is the closure notify_spectator of *)
(* its connection; it creates a task that sends the state later.           *)
(***************************************************************************)
\* the stores the server starts from: earlier games, then a running one; the
\* table has room for one more row
ServerStores == {save_state(Played(MaxRows - 2), NearBottomLeft)}

\* lifespan: the engine is built, nothing is connected
ServerInit ==
    /\ db \in ServerStores
    /\ state = load_or_create_state(db)
    /\ observers = <<>>
    /\ notified = <<>>
    /\ printed = <<>>
    /\ escaped = FALSE
    /\ lastOp = "init"
    /\ lastArg = "none"
    /\ ThreadsIdle
    /\ ServerIdle
    /\ CallersIdle
    /\ RequestsIdle
    /\ ShopIdle

\* the closure notify_spectator of connection c, an observer that does not raise
notify_spectator(c) == 0 - (c + 1)

\* the conn_id a closure has captured
ConnOf(o) == 0 - (o + 1)

\* Position.to_dict
PositionToDict(p) == [x |-> p.x, y |-> p.y]

\* GameState.to_dict
to_dict(st) ==
    [snake |-> [i \in DOMAIN st.snake |-> PositionToDict(st.snake[i])],
     fruit |-> PositionToDict(st.fruit),
     score |-> st.score,
     game_over |-> st.game_over,
     direction |-> st.direction,
     high_score |-> st.high_score]

\* SnakeGame.get_state: a new GameState with a copy of the snake list
get_state(st) ==
    GameState(st.snake, st.fruit, st.score, st.game_over, st.direction, st.high_score)

\* the tasks the invoked closures create: each holds the object it was handed,
\* which is self.state itself; `handed` keeps what that object held at the time
Spawn(calls) ==
    [i \in 1..Len(calls) |->
        [conn |-> ConnOf(calls[i].observer), handed |-> calls[i].state, live |-> TRUE,
         old |-> calls[i].state]]

\* reset_game binds self.state to a new object: the tasks created before it
\* keep the old object, which nothing changes any more
Freeze(ts, st) ==
    [i \in DOMAIN ts |->
        IF ts[i].live THEN [ts[i] EXCEPT !.live = FALSE, !.old = st] ELSE ts[i]]

\* the object a task holds, as it is now
Deref(t) == IF t.live THEN state ELSE t.old

\* game.tick() called on the event loop
EngineTick ==
    /\ tick
    /\ tasks' = tasks \o Spawn(notified')

\* game.reset_game() called on the event loop
EngineReset ==
    /\ reset_game
    /\ tasks' = Freeze(tasks, state) \o Spawn(notified')

\* the started flag ignored
DriverTicks_mut(started, st) == ~st.game_over

\* the condition of game_tick_loop: `game and game_started and not
\* game.state.game_over`; game is set by lifespan before the loop starts
DriverTicks(started, st) == started /\ ~st.game_over

\* one iteration of game_tick_loop that ticks; the loop sleeps game_speed >= 0.1 s
\* between iterations, and the tasks created by the last one run before that
game_tick_loop ==
    /\ tasks = <<>>
    /\ DriverTicks(game_started, state)
    /\ EngineTick
    /\ sent' = NoMessage
    /\ UNCHANGED <<game_started, active_player, spectator_connections,
                   connection_counter, handler>>

\* POST /api/player/connect, served by the task whose id is p
player_connect(p) ==
    /\ active_player' = p
    /\ IF state.game_over
       THEN EngineReset
       ELSE UNCHANGED <<engineVars, tasks>>
    /\ sent' = NoMessage
    /\ UNCHANGED <<game_started, spectator_connections, connection_counter, handler>>

\* POST /api/player/disconnect
player_disconnect ==
    /\ active_player' = 0
    /\ sent' = NoMessage
    /\ UNCHANGED <<engineVars, game_started, spectator_connections, connection_counter,
                   handler, tasks>>

\* the direction names a request may carry
DirectionNames == Directions \cup {"left", "Down", "sideways", "NORTH"}

\* str.upper on those names
Upper(n) ==
    CASE n = "left" -> "LEFT"
      [] n = "Down" -> "DOWN"
      [] n = "sideways" -> "SIDEWAYS"
      [] OTHER -> n

\* the name looked at before the player
DirectionStatus_mut(player, n) ==
    IF Upper(n) \notin Directions THEN 400
    ELSE IF player = 0 THEN 409
    ELSE 200

\* the status code of POST /api/player/direction/{direction}
DirectionStatus(player, n) ==
    IF player = 0 THEN 409
    ELSE IF Upper(n) \notin Directions THEN 400
    ELSE 200

\* POST /api/player/direction/{direction}: 409 without a player, 400 for a name
\* that is no Direction
api_set_direction(n) ==
    /\ IF DirectionStatus(active_player, n) = 200
       THEN set_direction(Upper(n))
       ELSE UNCHANGED engineVars
    /\ sent' = NoMessage
    /\ UNCHANGED <<game_started, active_player, spectator_connections, connection_counter,
                   handler, tasks>>

\* POST /api/player/reset
api_reset_game ==
    /\ EngineReset
    /\ game_started' = FALSE
    /\ sent' = NoMessage
    /\ UNCHANGED <<active_player, spectator_connections, connection_counter, handler>>

\* POST /api/player/start and POST /api/player/resume
start_game ==
    /\ game_started' = TRUE
    /\ sent' = NoMessage
    /\ UNCHANGED <<engineVars, active_player, spectator_connections, connection_counter,
                   handler, tasks>>

\* POST /api/player/pause
pause_game ==
    /\ game_started' = FALSE
    /\ sent' = NoMessage
    /\ UNCHANGED <<engineVars, active_player, spectator_connections, connection_counter,
                   handler, tasks>>

\* websocket_spectate from the return of accept() to its first await: the
\* connection is registered, its closure subscribed, a copy of the state
\* serialized and sent; the handler then waits in send_json or receive_text
websocket_spectate ==
    /\ connection_counter < MaxConnections
    /\ connection_counter' = connection_counter + 1
    /\ spectator_connections' = spectator_connections \cup {connection_counter}
    /\ subscribe(notify_spectator(connection_counter))
    /\ handler' = [handler EXCEPT ![connection_counter] = "open"]
    /\ sent' = [conn |-> connection_counter, cause |-> "connect", handed |-> state,
                data |-> to_dict(get_state(state))]
    /\ UNCHANGED <<game_started, active_player, tasks>>

\* how an await of the handler can raise: WebSocketDisconnect, which the
\* handler catches, or anything else (RuntimeError, CancelledError), which
\* leaves it
Endings == {"closed", "failed"}

Cleanup_mut(kind) == kind = "closed"

\* the finally clause runs however the try block is left
Cleanup(kind) == TRUE

\* an await of the handler raises, and the handler ends
HandlerEnds(c, kind) ==
    /\ handler[c] = "open"
    /\ handler' = [handler EXCEPT ![c] = kind]
    /\ IF Cleanup(kind)
       THEN /\ unsubscribe(notify_spectator(c))
            /\ spectator_connections' = spectator_connections \ {c}
       ELSE UNCHANGED <<engineVars, spectator_connections>>
    /\ sent' = NoMessage
    /\ UNCHANGED <<game_started, active_player, connection_counter, tasks>>

\* the oldest task runs send_update_to_spectator up to its await: the state it
\* holds is serialized now; send_json delivers it, or raises and is printed
send_update_to_spectator ==
    /\ tasks # <<>>
    /\ tasks' = Tail(tasks)
    /\ IF Head(tasks).conn \in spectator_connections
       THEN \/ sent' = [conn |-> Head(tasks).conn, cause |-> "notify",
                        handed |-> Head(tasks).handed,
                        data |-> to_dict(Deref(Head(tasks)))]
            \/ sent' = NoMessage
       ELSE sent' = NoMessage
    /\ UNCHANGED <<engineVars, game_started, active_player, spectator_connections,
                   connection_counter, handler>>

ServerNext ==
    \/ game_tick_loop /\ UNCHANGED <<threadVars, callerVars, requestVars, shopVars>>
    \/ \E p \in Players : player_connect(p) /\ UNCHANGED <<threadVars, callerVars, requestVars, shopVars>>
    \/ player_disconnect /\ UNCHANGED <<threadVars, callerVars, requestVars, shopVars>>
    \/ \E n \in DirectionNames : api_set_direction(n) /\ UNCHANGED <<threadVars, callerVars, requestVars, shopVars>>
    \/ api_reset_game /\ UNCHANGED <<threadVars, callerVars, requestVars, shopVars>>
    \/ start_game /\ UNCHANGED <<threadVars, callerVars, requestVars, shopVars>>
    \/ pause_game /\ UNCHANGED <<threadVars, callerVars, requestVars, shopVars>>
    \/ websocket_spectate /\ UNCHANGED <<threadVars, callerVars, requestVars, shopVars>>
    \/ \E c \in Conns : \E kind \in Endings : HandlerEnds(c, kind) /\ UNCHANGED <<threadVars, callerVars, requestVars, shopVars>>
    \/ send_update_to_spectator /\ UNCHANGED <<threadVars, callerVars, requestVars, shopVars>>

SpecServer == ServerInit /\ [][ServerNext]_vars

(***************************************************************************)
(* The HTTP endpoints and the tick driver of main.py with no spectator     *)
(* connected, each request recorded with the status code it is answered    *)
(* with.                                                                   *)
(***************************************************************************)
\* the stores the server starts from here: earlier games, then a running one;
\* the table has room for two more rows
RequestStores == {save_state(Played(MaxRows - 3), NearBottomLeft)}

\* lifespan: the engine is built, nothing is connected
RequestInit ==
    /\ db \in RequestStores
    /\ state = load_or_create_state(db)
    /\ observers = <<>>
    /\ notified = <<>>
    /\ printed = <<>>
    /\ escaped = FALSE
    /\ lastOp = "init"
    /\ lastArg = "none"
    /\ ThreadsIdle
    /\ ServerIdle
    /\ CallersIdle
    /\ RequestsIdle
    /\ ShopIdle

\* the request is answered
Serve(name, arg, status) == served' = [name |-> name, arg |-> arg, status |-> status]

\* an iteration of game_tick_loop whose condition is false: it only sleeps
DriverSleeps ==
    /\ ~DriverTicks(game_started, state)
    /\ Serve("game_tick_loop", "none", 0)
    /\ UNCHANGED <<engineVars, serverVars, unstarted>>

\* an iteration of game_tick_loop that ticks
DriverIteration ==
    /\ game_tick_loop
    /\ Serve("game_tick_loop", "none", 0)
    /\ UNCHANGED unstarted

RequestConnect(p) ==
    /\ player_connect(p)
    /\ Serve("player_connect", p, 200)
    /\ unstarted' = IF state.game_over THEN TRUE ELSE unstarted

RequestDisconnect ==
    /\ player_disconnect
    /\ Serve("player_disconnect", "none", 200)
    /\ UNCHANGED unstarted

RequestDirection(n) ==
    /\ api_set_direction(n)
    /\ Serve("set_direction", n, DirectionStatus(active_player, n))
    /\ UNCHANGED unstarted

RequestReset ==
    /\ api_reset_game
    /\ Serve("reset_game", "none", 200)
    /\ unstarted' = TRUE

RequestStart(name) ==
    /\ start_game
    /\ Serve(name, "none", 200)
    /\ unstarted' = FALSE

RequestPause ==
    /\ pause_game
    /\ Serve("pause_game", "none", 200)
    /\ UNCHANGED unstarted

RequestNext ==
    \/ DriverSleeps /\ UNCHANGED <<threadVars, callerVars, shopVars>>
    \/ DriverIteration /\ UNCHANGED <<threadVars, callerVars, shopVars>>
    \/ \E p \in Players : RequestConnect(p) /\ UNCHANGED <<threadVars, callerVars, shopVars>>
    \/ RequestDisconnect /\ UNCHANGED <<threadVars, callerVars, shopVars>>
    \/ \E n \in DirectionNames : RequestDirection(n) /\ UNCHANGED <<threadVars, callerVars, shopVars>>
    \/ RequestReset /\ UNCHANGED <<threadVars, callerVars, shopVars>>
    \/ \E name \in {"start_game", "resume_game"} :
           RequestStart(name) /\ UNCHANGED <<threadVars, callerVars, shopVars>>
    \/ RequestPause /\ UNCHANGED <<threadVars, callerVars, shopVars>>

SpecRequests == RequestInit /\ [][RequestNext]_vars

(***************************************************************************)
(* strategy-pattern/backend: the ShoppingCart context class and the        *)
(* endpoints of main.py that add items, register payment methods and check *)
(* out. Prices are whole numbers; the transaction ids and timestamps that  *)
(* pay takes from the clock are left out of the results.                   *)
(***************************************************************************)
\* the cart id of the requests
CartId == "cart-1"

\* the items a request can add (CartItem: name, price, quantity)
CartItems == [name : {"Laptop"}, price : {5, 20}, quantity : {1, 2}]

\* the strategies main.py selects: CreditCardPayment, PayPalPayment,
\* BitcoinPayment
Strategies == {"credit_card", "paypal", "bitcoin"}

\* the "method" field of the result of each strategy's pay
MethodName(s) ==
    CASE s = "credit_card" -> "Credit Card"
      [] s = "paypal" -> "PayPal"
      [] s = "bitcoin" -> "Bitcoin"

\* the ids and names of available_payment_methods
available_payment_methods ==
    [id \in {"apple_pay", "google_pay", "stripe", "square"} |->
        CASE id = "apple_pay" -> "Apple Pay"
          [] id = "google_pay" -> "Google Pay"
          [] id = "stripe" -> "Stripe"
          [] id = "square" -> "Square"]

\* the payment_method values of the checkout requests
PaymentMethods == Strategies \cup {"apple_pay", "stripe", "cash"}

\* ShoppingCart.__init__
ShoppingCart == [items |-> <<>>, payment_strategy |-> "none"]

\* ShoppingCart.add_item
add_item(cart, item) == [cart EXCEPT !.items = Append(@, item)]

\* ShoppingCart.get_total
RECURSIVE get_total(_)
get_total(items) ==
    IF items = <<>> THEN 0
    ELSE items[1].price * items[1].quantity + get_total(Tail(items))

\* a result that is a failure: no pay call was made
Failure(error) ==
    [success |-> FALSE, error |-> error, method |-> "none", amount |-> 0,
     total |-> 0, pays |-> <<>>]

\* PaymentStrategy.pay of the three strategies, the call recorded in pays
pay(s, amount) ==
    [success |-> TRUE, error |-> "none", method |-> MethodName(s),
     amount |-> amount, total |-> 0,
     pays |-> <<[strategy |-> s, amount |-> amount]>>]

\* the emptiness of the cart looked at first
checkout_mut(cart) ==
    IF cart.items = <<>> THEN Failure("Cart is empty")
    ELSE IF cart.payment_strategy = "none" THEN Failure("No payment method selected")
    ELSE [pay(cart.payment_strategy, get_total(cart.items))
            EXCEPT !.total = get_total(cart.items)]

\* ShoppingCart.checkout: the result it returns
checkout(cart) ==
    IF cart.payment_strategy = "none" THEN Failure("No payment method selected")
    ELSE IF cart.items = <<>> THEN Failure("Cart is empty")
    ELSE [pay(cart.payment_strategy, get_total(cart.items))
            EXCEPT !.total = get_total(cart.items)]

\* BadShoppingCart.checkout on the same items: bad_carts mirrors carts
BadCheckout(items, payment_type) ==
    IF items = <<>> THEN Failure("Cart is empty")
    ELSE IF payment_type \in Strategies
         THEN [success |-> TRUE, error |-> "none", method |-> MethodName(payment_type),
               amount |-> get_total(items), total |-> 0, pays |-> <<>>]
         ELSE Failure("Unknown payment type")

\* the answer to a call: its name, its argument, the status code (0 for a
\* method call) and the result
Answer(call, arg, bad, status, result) ==
    [call |-> call, arg |-> arg, bad |-> bad, status |-> status, result |-> result]

\* an HTTPException
Raise(call, arg, bad, status, detail) == Answer(call, arg, bad, status, Failure(detail))

\* a success that carries no payment
Done == [Failure("none") EXCEPT !.success = TRUE]

\* main.py starts with no cart and no registered method
ShopInit ==
    /\ db \in RequestStores
    /\ state = load_or_create_state(db)
    /\ observers = <<>>
    /\ notified = <<>>
    /\ printed = <<>>
    /\ escaped = FALSE
    /\ lastOp = "init"
    /\ lastArg = "none"
    /\ ThreadsIdle
    /\ ServerIdle
    /\ CallersIdle
    /\ RequestsIdle
    /\ ShopIdle

\* POST /cart/{cart_id}/add
add_to_cart(item) ==
    /\ Len(IF CartId \in DOMAIN carts THEN carts[CartId].items ELSE <<>>) < MaxItems
    /\ carts' = IF CartId \in DOMAIN carts
                THEN [carts EXCEPT ![CartId] = add_item(@, item)]
                ELSE (CartId :> add_item(ShoppingCart, item))
    /\ reply' = Answer("add_to_cart", item.name, FALSE, 200,
                       [Done EXCEPT !.total = get_total(carts'[CartId].items)])
    /\ UNCHANGED registered_payment_methods

\* DELETE /cart/{cart_id}
clear_cart ==
    /\ carts' = IF CartId \in DOMAIN carts
                THEN [carts EXCEPT ![CartId] = ShoppingCart]
                ELSE carts
    /\ reply' = Answer("clear_cart", "none", FALSE, 200, Done)
    /\ UNCHANGED registered_payment_methods

\* POST /add-payment-method
add_payment_method(method_id, use_bad_example) ==
    /\ reply' =
          IF method_id \notin DOMAIN available_payment_methods
          THEN Raise("add_payment_method", method_id, use_bad_example, 400,
                     "Unknown payment method")
          ELSE IF method_id \in DOMAIN registered_payment_methods
          THEN Raise("add_payment_method", method_id, use_bad_example, 400,
                     "Payment method already registered")
          ELSE IF use_bad_example
          THEN Answer("add_payment_method", method_id, TRUE, 200,
                      Failure("Cannot add new payment method"))
          ELSE Answer("add_payment_method", method_id, FALSE, 200, Done)
    /\ registered_payment_methods' =
          IF reply'.result.success
          THEN (method_id :> available_payment_methods[method_id]) @@ registered_payment_methods
          ELSE registered_payment_methods
    /\ UNCHANGED carts

\* POST /checkout; details says whether the request carries the details
\* object of its payment_method
api_checkout(payment_method, details, use_bad_example) ==
    IF CartId \notin DOMAIN carts
    THEN /\ reply' = Raise("api_checkout", payment_method, use_bad_example, 404,
                           "Cart not found")
         /\ UNCHANGED <<carts, registered_payment_methods>>
    ELSE IF use_bad_example
    THEN /\ reply' = Answer("api_checkout", payment_method, TRUE, 200,
                            BadCheckout(carts[CartId].items, payment_method))
         /\ UNCHANGED <<carts, registered_payment_methods>>
    ELSE IF payment_method \in Strategies /\ ~details
    THEN /\ reply' = Raise("api_checkout", payment_method, FALSE, 400, "details required")
         /\ UNCHANGED <<carts, registered_payment_methods>>
    ELSE IF payment_method \notin Strategies
    THEN /\ reply' = Raise("api_checkout", payment_method, FALSE, 400,
                           "Unknown payment method")
         /\ UNCHANGED <<carts, registered_payment_methods>>
    ELSE /\ carts' = [carts EXCEPT ![CartId].payment_strategy = payment_method]
         /\ reply' = Answer("api_checkout", payment_method, FALSE, 200,
                            checkout(carts'[CartId]))
         /\ UNCHANGED registered_payment_methods

\* a direct call of ShoppingCart.set_payment_strategy on the cart
set_payment_strategy(strategy) ==
    /\ CartId \in DOMAIN carts
    /\ carts' = [carts EXCEPT ![CartId].payment_strategy = strategy]
    /\ reply' = Answer("set_payment_strategy", strategy, FALSE, 0, Done)
    /\ UNCHANGED registered_payment_methods

\* a direct call of ShoppingCart.checkout on the cart
CartCheckout ==
    /\ CartId \in DOMAIN carts
    /\ reply' = Answer("checkout", "none", FALSE, 0, checkout(carts[CartId]))
    /\ UNCHANGED <<carts, registered_payment_methods>>

ShopNext ==
    \/ \E item \in CartItems :
           add_to_cart(item) /\ UNCHANGED <<engineVars, threadVars, serverVars, callerVars, requestVars>>
    \/ clear_cart /\ UNCHANGED <<engineVars, threadVars, serverVars, callerVars, requestVars>>
    \/ \E id \in {"apple_pay", "stripe", "cash"} : \E bad \in BOOLEAN :
           add_payment_method(id, bad) /\ UNCHANGED <<engineVars, threadVars, serverVars, callerVars, requestVars>>
    \/ \E m \in PaymentMethods : \E details \in BOOLEAN : \E bad \in BOOLEAN :
           api_checkout(m, details, bad) /\ UNCHANGED <<engineVars, threadVars, serverVars, callerVars, requestVars>>
    \/ \E s \in Strategies :
           set_payment_strategy(s) /\ UNCHANGED <<engineVars, threadVars, serverVars, callerVars, requestVars>>
    \/ CartCheckout /\ UNCHANGED <<engineVars, threadVars, serverVars, callerVars, requestVars>>

SpecShop == ShopInit /\ [][ShopNext]_vars

(***************************************************************************)
(* A caller of the engine that keeps the values get_state returned.  A     *)
(* returned value is a Python object: what it holds later depends on which *)
(* objects it shares with the engine, and the engine changes its GameState *)
(* and its snake list in place.                                            *)
(***************************************************************************)
\* the stores the caller's engine starts from: earlier games, then a running
\* one; the table has room for one more row
CallerStores == {save_state(Played(MaxRows - 2), NearTopRight)}

\* SnakeGame.__init__, nothing subscribed
CallerInit ==
    /\ db \in CallerStores
    /\ state = load_or_create_state(db)
    /\ observers = <<>>
    /\ notified = <<>>
    /\ printed = <<>>
    /\ escaped = FALSE
    /\ lastOp = "init"
    /\ lastArg = "none"
    /\ ThreadsIdle
    /\ ServerIdle
    /\ CallersIdle
    /\ RequestsIdle
    /\ ShopIdle

\* get_state without the .copy(): the value holds the engine's snake list
Returned_mut(st) ==
    [value |-> get_state(st), taken |-> get_state(st), shares |-> {"snake"},
     touched |-> FALSE]

\* the value get_state returns: a new GameState around a copy of the snake
\* list, so it shares neither with the engine; the Position objects it does
\* share are assigned nowhere.  `taken` keeps what it held when returned
Returned(st) ==
    [value |-> get_state(st), taken |-> get_state(st), shares |-> {},
     touched |-> FALSE]

\* get_state with a statement that pops the engine's snake
Untouched_mut(st) == [st EXCEPT !.snake = SubSeq(@, 1, Len(@) - 1)]

\* self.state after get_state: the method assigns nothing and calls only
\* list.copy
Untouched(st) == st

\* what a returned value holds after the engine has changed its objects in
\* place to st
Seen(s, st) ==
    IF "state" \in s.shares THEN [s EXCEPT !.value = st]
    ELSE IF "snake" \in s.shares THEN [s EXCEPT !.value.snake = st.snake]
    ELSE s

\* set_direction and tick assign to fields of self.state and insert into and
\* pop from self.state.snake
InPlace(ss, st) == [i \in DOMAIN ss |-> Seen(ss[i], st)]

\* reset_game binds self.state to a new GameState with a new list: the objects
\* returned before are the engine's no longer
Detached(ss) == [i \in DOMAIN ss |-> [ss[i] EXCEPT !.shares = {}]]

\* game.set_direction(d)
CallerSetDirection(d) ==
    /\ set_direction(d)
    /\ snaps' = InPlace(snaps, state')
    /\ UNCHANGED applied

\* game.tick()
CallerTick ==
    /\ tick
    /\ snaps' = InPlace(snaps, state')
    /\ applied' = IF Effective(state) THEN state.direction ELSE applied

\* game.reset_game()
CallerReset ==
    /\ reset_game
    /\ snaps' = Detached(snaps)
    /\ applied' = "none"

\* game.get_state(), the value kept by the caller
CallerGetState ==
    /\ Len(snaps) < MaxSnapshots
    /\ snaps' = Append(snaps, Returned(state))
    /\ state' = Untouched(state)
    /\ Report(NoCalls)
    /\ lastOp' = "get_state"
    /\ lastArg' = "none"
    /\ UNCHANGED <<db, observers, applied>>

\* the caller pops the snake list of the i-th value it holds
CallerPops(i) ==
    /\ ~snaps[i].touched
    /\ snaps[i].value.snake # <<>>
    /\ snaps' = [snaps EXCEPT ![i].value.snake = SubSeq(@, 1, Len(@) - 1),
                              ![i].touched = TRUE]
    /\ state' = IF snaps[i].shares # {}
                THEN [state EXCEPT !.snake = SubSeq(@, 1, Len(@) - 1)]
                ELSE state
    /\ lastOp' = "snake.pop"
    /\ lastArg' = "none"
    /\ UNCHANGED <<db, observers, notified, printed, escaped, applied>>

CallerNext ==
    \/ \E d \in Directions : CallerSetDirection(d) /\ UNCHANGED <<threadVars, serverVars, requestVars, shopVars>>
    \/ CallerTick /\ UNCHANGED <<threadVars, serverVars, requestVars, shopVars>>
    \/ CallerReset /\ UNCHANGED <<threadVars, serverVars, requestVars, shopVars>>
    \/ CallerGetState /\ UNCHANGED <<threadVars, serverVars, requestVars, shopVars>>
    \/ \E i \in DOMAIN snaps : CallerPops(i) /\ UNCHANGED <<threadVars, serverVars, requestVars, shopVars>>

SpecCallers == CallerInit /\ [][CallerNext]_vars

\* a caller that steers: set_direction, tick and reset_game from any store
SteeringNext ==
    \/ \E d \in Directions : CallerSetDirection(d) /\ UNCHANGED <<threadVars, serverVars, requestVars, shopVars>>
    \/ CallerTick /\ UNCHANGED <<threadVars, serverVars, requestVars, shopVars>>
    \/ CallerReset /\ UNCHANGED <<threadVars, serverVars, requestVars, shopVars>>

SpecSteering == Init /\ [][SteeringNext]_vars

(***************************************************************************)
(* The properties.  A step is recognised by lastOp' (the method the step   *)
(* called); unprimed variables are the state before the call, primed ones  *)
(* the state after it.  The expected results are written out from the      *)
(* statements themselves, not with the operators of the model above.       *)
(***************************************************************************)
\* the unit vector of a direction: UP=(0,-1), DOWN=(0,1), LEFT=(-1,0), RIGHT=(1,0)
UnitX(d) == IF d = "LEFT" THEN -1 ELSE IF d = "RIGHT" THEN 1 ELSE 0

UnitY(d) == IF d = "UP" THEN -1 ELSE IF d = "DOWN" THEN 1 ELSE 0

\* the cell ahead of the head of st
Ahead(st) ==
    [x |-> st.snake[1].x + UnitX(st.direction), y |-> st.snake[1].y + UnitY(st.direction)]

InGrid(p) == p.x \in 0..19 /\ p.y \in 0..19

OnSnake(p, sn) == \E i \in DOMAIN sn : sn[i] = p

Reversal(cur, d) ==
    <<cur, d>> \in {<<"UP", "DOWN">>, <<"DOWN", "UP">>, <<"LEFT", "RIGHT">>, <<"RIGHT", "LEFT">>}

\* a tick that passes the early return of a game that is over
TickOfRunning == lastOp' = "tick" /\ ~state.game_over

\* C1: set_direction(d) leaves the direction unchanged when d is the opposite of
\* the current direction, and sets it to d when d is the current direction or one
\* of the two perpendicular ones.
C1_NoSelfReversal ==
    [][lastOp' = "set_direction" =>
          state'.direction = IF Reversal(state.direction, lastArg')
                             THEN state.direction ELSE lastArg']_vars

\* a reversal was asked for and refused: the snake still heads RIGHT after
\* set_direction(LEFT), which any other current direction would have accepted
C1_Witness ==
    /\ lastOp = "set_direction"
    /\ lastArg = "LEFT"
    /\ state.direction = "RIGHT"

\* C2: a tick of a running game whose new head is outside [0,20)x[0,20) sets
\* game_over on that tick and leaves snake, score and fruit as they were; a tick
\* whose new head is inside the grid and on no snake segment never sets game_over.
C2_WallCollision ==
    [][TickOfRunning =>
          /\ ~InGrid(Ahead(state)) =>
                 /\ state'.game_over
                 /\ state'.snake = state.snake
                 /\ state'.score = state.score
                 /\ state'.fruit = state.fruit
          /\ (InGrid(Ahead(state)) /\ ~OnSnake(Ahead(state), state.snake)) =>
                 ~state'.game_over]_vars

\* a tick has just run the snake into the right wall from column 19
C2_Witness ==
    /\ lastOp = "tick"
    /\ state.game_over
    /\ state.snake[1].x = 19
    /\ Ahead(state).x = 20

\* C3: a tick of a running game whose new head is on any segment of the snake as
\* it stands before the move, the tail included, sets game_over on that same tick
\* and leaves snake, score and fruit as they were.
C3_SelfCollision ==
    [][(TickOfRunning /\ OnSnake(Ahead(state), state.snake)) =>
          /\ state'.game_over
          /\ state'.snake = state.snake
          /\ state'.score = state.score
          /\ state'.fruit = state.fruit]_vars

\* a tick has just ended the game on the tail cell of the snake
C3_Witness ==
    /\ lastOp = "tick"
    /\ state.game_over
    /\ Ahead(state) = state.snake[Len(state.snake)]

\* C4: a non-colliding tick whose new head is the fruit cell grows the snake by
\* exactly 1 and the score by exactly 10; any other non-colliding tick leaves the
\* length and the score unchanged.  Either way the new head is segment 1 and the
\* other segments follow in their old order.
C4_GrowthLaw ==
    [][(TickOfRunning /\ InGrid(Ahead(state)) /\ ~OnSnake(Ahead(state), state.snake)) =>
          /\ IF Ahead(state) = state.fruit
             THEN /\ Len(state'.snake) = Len(state.snake) + 1
                  /\ state'.score = state.score + 10
             ELSE /\ Len(state'.snake) = Len(state.snake)
                  /\ state'.score = state.score
          /\ state'.snake[1] = Ahead(state)
          /\ \A i \in 2..Len(state'.snake) : state'.snake[i] = state.snake[i - 1]]_vars

\* a tick has just eaten the fruit at (19,1): five segments, score 20, the old
\* head now second
C4_Witness ==
    /\ lastOp = "tick"
    /\ ~state.game_over
    /\ Len(state.snake) = 5
    /\ state.score = 20
    /\ state.snake[1] = [x |-> 19, y |-> 1]
    /\ state.snake[2] = [x |-> 19, y |-> 0]

\* C5: at every transition to game_over high_score becomes the larger of
\* high_score and score, and score is not changed.
C5_HighScoreFold ==
    [][(lastOp' = "tick" /\ ~state.game_over /\ state'.game_over) =>
          /\ state'.high_score = IF state.score > state.high_score
                                 THEN state.score ELSE state.high_score
          /\ state'.score = state.score]_vars

\* a game stored with score 10 above its high score 0 has just ended: the high
\* score in memory and in the new row is 10
C5_Witness ==
    /\ lastOp = "tick"
    /\ state.game_over
    /\ Len(db) = 2
    /\ db[1].score > db[1].high_score
    /\ db[1].game_over = 0
    /\ state.score = db[1].score
    /\ state.high_score = db[1].score

\* how often the last call invoked observer o
Invocations(calls, o) == Cardinality({i \in DOMAIN calls : calls[i].observer = o})

Subscribed(obs, o) == \E i \in DOMAIN obs : obs[i] = o

\* obs without its entries equal to o, the others in their order
RECURSIVE Without(_, _)
Without(obs, o) ==
    IF obs = <<>> THEN <<>>
    ELSE IF Head(obs) = o THEN Without(Tail(obs), o)
    ELSE <<Head(obs)>> \o Without(Tail(obs), o)

\* C6: with N distinct observers subscribed, an effective tick invokes each of
\* them exactly once, in subscription order (subscribe puts a new observer last,
\* unsubscribe takes one out and keeps the order of the others), all with the
\* state the tick leaves; an observer that was unsubscribed is not invoked.
C6_ObserverFanout ==
    [][/\ TickOfRunning =>
              /\ Len(notified') = Len(observers)
              /\ \A i \in DOMAIN observers :
                     /\ notified'[i].observer = observers[i]
                     /\ notified'[i].state = state'
              /\ \A o \in Observers :
                     Invocations(notified', o) = IF Subscribed(observers, o) THEN 1 ELSE 0
       /\ (lastOp' = "subscribe" /\ ~Subscribed(observers, lastArg')) =>
              observers' = observers \o <<lastArg'>>
       /\ lastOp' = "unsubscribe" =>
              /\ observers' = Without(observers, lastArg')
              /\ ~Subscribed(observers', lastArg')]_vars

\* a tick has just invoked two observers, the one subscribed first (2) first,
\* both with the state it left
C6_Witness ==
    /\ lastOp = "tick"
    /\ observers = <<2, 1>>
    /\ Len(notified) = 2
    /\ notified[1].observer = 2
    /\ notified[2].observer = 1
    /\ notified[1].state = state
    /\ notified[2].state = state

\* C7: reset_game, called while the game runs or after it ended, leaves snake
\* [(10,10),(9,10),(8,10)], direction RIGHT, score 0, game_over false, fruit
\* (15,15) and the high score held just before the call.
C7_ResetPreservesHighScore ==
    [][lastOp' = "reset_game" =>
          state' = [snake |-> <<[x |-> 10, y |-> 10], [x |-> 9, y |-> 10], [x |-> 8, y |-> 10]>>,
                    fruit |-> [x |-> 15, y |-> 15],
                    score |-> 0,
                    game_over |-> FALSE,
                    direction |-> "RIGHT",
                    high_score |-> state.high_score]]_vars

\* a game that ended with a high score above 0 (the row before the last) has
\* just been reset: the new game keeps that high score
C7_Witness ==
    /\ lastOp = "reset_game"
    /\ Len(db) = 3
    /\ db[2].game_over = 1
    /\ db[2].high_score > 0
    /\ state.high_score = db[2].high_score
    /\ state.score = 0
    /\ ~state.game_over

\* C8: a tick issued while game_over is true changes nothing: the game state is
\* as before, no row is added to the store and no observer is invoked; so it is
\* for every such tick until reset_game.
C8_TickAfterGameOver ==
    [][(lastOp' = "tick" /\ state.game_over) =>
          /\ state' = state
          /\ db' = db
          /\ observers' = observers
          /\ notified' = <<>>]_vars

\* the game is over, observers are subscribed, and the tick just issued invoked
\* none of them
C8_Witness ==
    /\ lastOp = "tick"
    /\ state.game_over
    /\ observers # <<>>
    /\ notified = <<>>
    /\ get_latest_state(db) = state

\* a call that changes the engine state, as C9 counts them
MutatingCall == TickOfRunning \/ lastOp' = "reset_game" \/ lastOp' = "set_direction"

\* every subscribed observer is invoked exactly once, each with the state in
\* memory, which is the state read back from the newest row of the store
NotifiesEach ==
    /\ \A o \in Observers :
           Invocations(notified', o) = IF Subscribed(observers, o) THEN 1 ELSE 0
    /\ \A i \in DOMAIN notified' :
           /\ notified'[i].state = state'
           /\ db' # <<>>
           /\ notified'[i].state =
                  [snake |-> db'[Len(db')].snake, fruit |-> db'[Len(db')].fruit,
                   score |-> db'[Len(db')].score,
                   game_over |-> (db'[Len(db')].game_over = 1),
                   direction |-> db'[Len(db')].direction,
                   high_score |-> db'[Len(db')].high_score]

\* the call has added one row to the store and left the others alone
PersistsOne ==
    /\ Len(db') = Len(db) + 1
    /\ \A i \in DOMAIN db : db'[i] = db[i]

C10_ObserverFailureIsolated ==
    [][((TickOfRunning \/ lastOp' = "reset_game")
            /\ \E i \in DOMAIN observers : Raises(observers[i])) =>
          /\ \A i \in DOMAIN observers : Invocations(notified', observers[i]) = 1
          /\ ~escaped'
          /\ Len(db') = Len(db) + 1
          /\ RowState(db'[Len(db')]) = state'
          /\ lastOp' = "reset_game" => (state'.score = 0 /\ ~state'.game_over)
          /\ TickOfRunning =>
                 \/ state'.game_over /\ state'.snake = state.snake
                 \/ ~state'.game_over /\ state'.snake[1] = Ahead(state)]_vars

\* the observer invoked first raised, its exception was printed, the observer
\* after it was invoked all the same and nothing left the tick
C10_Witness ==
    /\ lastOp = "tick"
    /\ observers = <<1, 2>>
    /\ printed = <<1>>
    /\ Len(notified) = 2
    /\ notified[2].observer = 2
    /\ notified[2].state = state
    /\ ~escaped

\* the fixed initial game with high score hs
FixedStart(hs) ==
    [snake |-> <<[x |-> 10, y |-> 10], [x |-> 9, y |-> 10], [x |-> 8, y |-> 10]>>,
     fruit |-> [x |-> 15, y |-> 15], score |-> 0, game_over |-> FALSE,
     direction |-> "RIGHT", high_score |-> hs]

\* the game a row of the table holds
Stored(r) ==
    [snake |-> r.snake, fruit |-> r.fruit, score |-> r.score,
     game_over |-> (r.game_over = 1), direction |-> r.direction,
     high_score |-> r.high_score]

\* C13: on construction the engine resumes the latest snapshot when it is not
\* over, starts the fixed initial game with that snapshot's high score when it is
\* over, and starts the fixed initial game with high score 0 when the store is
\* empty.
C13_LoadOrCreate ==
    lastOp = "init" =>
        IF db = <<>> THEN state = FixedStart(0)
        ELSE IF db[Len(db)].game_over = 0 THEN state = Stored(db[Len(db)])
        ELSE state = FixedStart(db[Len(db)].high_score)

\* the engine was constructed on a store whose latest game had ended with a high
\* score above 0, and starts a new game with it
C13_Witness ==
    /\ lastOp = "init"
    /\ db # <<>>
    /\ db[Len(db)].game_over = 1
    /\ db[Len(db)].high_score > 0
    /\ state.high_score = db[Len(db)].high_score
    /\ ~state.game_over

\* C14: the store is append-only: a save adds exactly one row and leaves every
\* earlier row as it was, and get_latest_state then returns the state that was
\* saved; with nothing saved there is no latest state.
C14_AppendOnly ==
    [][/\ db' # db =>
              /\ Len(db') = Len(db) + 1
              /\ \A i \in DOMAIN db : db'[i] = db[i]
              /\ HasRows(db')
              /\ get_latest_state(db') = state'
              /\ Stored(db'[Len(db')]) = state'
       /\ db' = <<>> => ~HasRows(db')
       /\ (TickOfRunning \/ lastOp' = "reset_game") => db' # db]_vars

\* three saves: the rows of the first two are still there under their ids and
\* the latest state is the one saved last
C14_Witness ==
    /\ Len(db) = 3
    /\ db[1].id = 1
    /\ db[2].id = 2
    /\ db[3].id = 3
    /\ lastOp \in {"tick", "reset_game"}
    /\ get_latest_state(db) = state
    /\ Stored(db[2]) # state

\* C15: in every state with game_over true, high_score >= score.
C15_HighScoreBound == state.game_over => state.high_score >= state.score

\* a game loaded with its score above the high score has ended
C15_Witness ==
    /\ state.game_over
    /\ state.score > 0
    /\ db[1].game_over = 0
    /\ db[1].high_score < db[1].score
    /\ state.high_score >= state.score

\* C16 as stated: whenever a fruit is placed (by a reset, or by a tick that eats
\* the old one) it is on no segment of the snake of that moment.
C16_FruitOffSnake ==
    [][(\/ lastOp' = "reset_game"
        \/ (TickOfRunning /\ InGrid(Ahead(state))
                /\ ~OnSnake(Ahead(state), state.snake)
                /\ Ahead(state) = state.fruit)) =>
          ~OnSnake(state'.fruit, state'.snake)]_vars

NoDuplicates(obs) == \A i, j \in DOMAIN obs : i # j => obs[i] # obs[j]

\* C18: the registry never holds an observer twice: subscribing a subscribed
\* observer leaves it unchanged, so a notification invokes it once and one
\* unsubscribe removes it; unsubscribing an observer that is not registered
\* leaves the registry unchanged.
C18_RegistryDeduplicates ==
    [][/\ NoDuplicates(observers')
       /\ (lastOp' = "subscribe" /\ Subscribed(observers, lastArg')) =>
              observers' = observers
       /\ lastOp' = "unsubscribe" =>
              /\ ~Subscribed(observers', lastArg')
              /\ ~Subscribed(observers, lastArg') => observers' = observers
       /\ (TickOfRunning \/ lastOp' = "reset_game") =>
              \A o \in Observers : Invocations(notified', o) <= 1]_vars

\* observer 1 has just been subscribed again: it was there before observer 2
\* came, and is still there once, in its place
C18_Witness ==
    /\ lastOp = "subscribe"
    /\ lastArg = 1
    /\ observers = <<1, 2>>

\* the threads inside the critical section of one of the four locked methods
InCriticalSection == {t \in Threads : InsideLock(t)}

\* C11: set_direction, tick, reset_game and get_state exclude each other: at most
\* one thread is inside its critical section, that thread holds the lock, and no
\* thread takes the copy of get_state while another is between the insert of the
\* new head and the removal of the tail.
C11_MutualExclusion ==
    /\ Cardinality(InCriticalSection) <= 1
    /\ \A t \in InCriticalSection : lock = t
    /\ \A g, t \in Threads : ~(pc[g] = "gs_copy" /\ pc[t] = "tick_pop")

\* one thread is in the middle of a tick, the new head inserted and the tail
\* still there, while another has called get_state and waits for the lock
C11_Witness ==
    \E g, t \in Threads :
        /\ pc[t] = "tick_pop"
        /\ lock = t
        /\ pc[g] = "acquire"
        /\ req[g].op = "get_state"
        /\ ~Nested(g)

\* C12 as stated: observers are invoked while the engine mutex is not held, so a
\* callback that calls get_state is never left waiting for a lock its own thread
\* holds.
C12_NotifyOutsideLock ==
    \A t \in Threads :
        (Nested(t) /\ pc[t] = "acquire") => lock # t

Count(calls, o) == Cardinality({i \in DOMAIN calls : calls[i] = o})

\* C19 as stated: when a notification has ended, every observer that was
\* subscribed at its start and was neither subscribed nor unsubscribed while it
\* ran has been invoked exactly once, whatever subscribe and unsubscribe calls
\* ran in between.
C19_RegistrySerialized ==
    \A t \in Threads :
        pc[t] = "loop_done" =>
            \A i \in DOMAIN loop[t].start :
                loop[t].start[i] \notin loop[t].touched =>
                    Count(loop[t].calls, loop[t].start[i]) = 1

\* the connections whose websocket_spectate handler is running
LiveSpectators == {c \in Conns : handler[c] = "open"}

\* the connections whose handler has ended, however it ended
GoneSpectators == {c \in Conns : handler[c] \in {"closed", "failed"}}

\* the observers a list of invocations names
Invoked(calls) == {calls[i].observer : i \in DOMAIN calls}

\* C17: after every step of the server, whatever spectators have connected and
\* however their handlers ended, the engine holds exactly one observer per live
\* spectator connection, spectator_connections holds exactly the live
\* connections, and the observer of a connection whose handler had ended before
\* the step is neither registered nor invoked by the step.
C17_ObserversMatchSpectators ==
    [][/\ Len(observers') = Cardinality(LiveSpectators')
       /\ spectator_connections' = LiveSpectators'
       /\ \A c \in LiveSpectators' : Subscribed(observers', notify_spectator(c))
       /\ \A c \in GoneSpectators :
              /\ ~Subscribed(observers', notify_spectator(c))
              /\ notify_spectator(c) \notin Invoked(notified')]_vars

\* one spectator's handler has failed, another is live, and the tick made since
\* has invoked the live one only
C17_Witness ==
    \E c, d \in Conns :
        /\ handler[c] = "failed"
        /\ handler[d] = "open"
        /\ lastOp = "tick"
        /\ Invoked(notified) = {notify_spectator(d)}
        /\ Len(observers) = 1

\* C20: a message sent to a spectator for a notification carries the engine
\* state as it was at the moment of that notification: its snake, fruit, score,
\* game_over, direction and high_score are those the observer was notified of,
\* whatever ran between the notification and the send.
C20_HandedCopy ==
    sent.cause = "notify" =>
        /\ Len(sent.data.snake) = Len(sent.handed.snake)
        /\ \A i \in DOMAIN sent.handed.snake :
               /\ sent.data.snake[i].x = sent.handed.snake[i].x
               /\ sent.data.snake[i].y = sent.handed.snake[i].y
        /\ sent.data.fruit.x = sent.handed.fruit.x
        /\ sent.data.fruit.y = sent.handed.fruit.y
        /\ sent.data.score = sent.handed.score
        /\ sent.data.game_over = sent.handed.game_over
        /\ sent.data.direction = sent.handed.direction
        /\ sent.data.high_score = sent.handed.high_score

\* |a - b|
Distance(a, b) == IF a >= b THEN a - b ELSE b - a

\* C29: in every state reached by set_direction, tick and reset_game the snake
\* has at least 3 segments, every segment lies inside [0,20)x[0,20), no two
\* segments are the same cell, and each segment is one step (up, down, left or
\* right) from the segment before it.
C29_SnakeWellFormed ==
    /\ Len(state.snake) >= 3
    /\ \A i \in DOMAIN state.snake :
           /\ state.snake[i].x \in 0..19
           /\ state.snake[i].y \in 0..19
    /\ \A i, j \in DOMAIN state.snake :
           i # j => ~(state.snake[i].x = state.snake[j].x /\ state.snake[i].y = state.snake[j].y)
    /\ \A i \in 1..(Len(state.snake) - 1) :
           Distance(state.snake[i].x, state.snake[i + 1].x)
             + Distance(state.snake[i].y, state.snake[i + 1].y) = 1

\* a fresh or reset game has turned up and made a tick
C29_Witness ==
    /\ lastOp = "tick"
    /\ ~state.game_over
    /\ Len(state.snake) = 3
    /\ state.snake[1].x = 10 /\ state.snake[1].y = 9
    /\ state.snake[2].x = 10 /\ state.snake[2].y = 10
    /\ state.snake[3].x = 9 /\ state.snake[3].y = 10

\* a returned value holds what it held when get_state returned it, but for the
\* last segment when its holder has popped it
Intact(s) ==
    /\ s.value.fruit = s.taken.fruit
    /\ s.value.score = s.taken.score
    /\ s.value.game_over = s.taken.game_over
    /\ s.value.direction = s.taken.direction
    /\ s.value.high_score = s.taken.high_score
    /\ s.value.snake = IF s.touched
                       THEN SubSeq(s.taken.snake, 1, Len(s.taken.snake) - 1)
                       ELSE s.taken.snake

\* C21: whatever set_direction, tick and reset_game do after get_state has
\* returned a value, the value's snake, fruit, score, game_over, direction and
\* high_score stay as returned; and popping the value's snake list leaves the
\* engine state as it was.
C21_SnapshotIsolated ==
    [][/\ \A i \in DOMAIN snaps' : Intact(snaps'[i])
       /\ lastOp' = "snake.pop" => state' = state]_vars

\* a value was returned, the engine has since turned and moved, and the holder
\* has popped the value's snake
C21_Witness ==
    \E i \in DOMAIN snaps :
        /\ snaps[i].touched
        /\ snaps[i].taken.direction # state.direction
        /\ snaps[i].taken.snake # state.snake
        /\ Len(state.snake) >= Len(snaps[i].taken.snake)

\* C22: a get_state call leaves the engine state, the store and the observer
\* registry as they were, and when the call before it was get_state too, it
\* returns what that call returned.
C22_GetStatePure ==
    [][lastOp' = "get_state" =>
          /\ state' = state
          /\ db' = db
          /\ observers' = observers
          /\ lastOp = "get_state" =>
                 snaps'[Len(snaps')].taken = snaps[Len(snaps)].taken]_vars

\* after a turn, get_state was called twice and returned the same
C22_Witness ==
    /\ lastOp = "get_state"
    /\ Len(snaps) = 2
    /\ snaps[1].taken = snaps[2].taken
    /\ snaps[2].taken.direction = "DOWN"
    /\ state.direction = "DOWN"

\* C28: an effective tick never moves in the exact opposite of the direction
\* the effective tick before it moved in, whatever set_direction calls were
\* made between the two.
C28_NoReversalBetweenTicks ==
    [][(TickOfRunning /\ applied # "none") => ~Reversal(applied, state.direction)]_vars


\* C23: an iteration of the tick driver ticks only when the started flag is
\* true: with the flag false (or the game over) the iteration leaves the engine
\* state and the store as they were, and with the flag true on a running game
\* it performs exactly one tick, which stores exactly one row.
C23_DriverTicksOnlyWhenStarted ==
    [][served'.name = "game_tick_loop" =>
          IF game_started /\ ~state.game_over
          THEN /\ lastOp' = "tick"
               /\ state' # state
               /\ Len(db') = Len(db) + 1
          ELSE UNCHANGED <<state, db, observers>>]_vars

\* the driver has just ticked a started, running game
C23_Witness ==
    /\ served.name = "game_tick_loop"
    /\ lastOp = "tick"
    /\ game_started
    /\ ~state.game_over

\* C24: a steering request that is rejected changes nothing: without an
\* active player the answer is 409 whatever the name, with a player a name
\* outside UP, DOWN, LEFT, RIGHT (in any case) is answered 400, and in both
\* cases the engine state, the store, the flag and the player stay the same.
C24_RejectedSteeringUnchanged ==
    [][served'.name = "set_direction" =>
          /\ active_player = 0 => served'.status = 409
          /\ (active_player # 0 /\ served'.arg \in {"sideways", "NORTH"})
                => served'.status = 400
          /\ (active_player # 0 /\ served'.arg \in {"left", "Down", "UP"})
                => served'.status = 200
          /\ served'.status \in {400, 409}
                => UNCHANGED <<state, db, game_started, active_player>>]_vars

\* a name that is no direction was refused for the lack of a player
C24_Witness ==
    /\ served.name = "set_direction"
    /\ served.arg = "sideways"
    /\ served.status = 409
    /\ active_player = 0

\* C25: the player slot is first come, first served: a connect request that
\* finds an active player leaves that player in the slot.
C25_FirstComeFirstServed ==
    [][(served'.name = "player_connect" /\ active_player # 0)
          => active_player' = active_player]_vars

\* C30: after a reset over HTTP (the reset endpoint, or a connect that finds
\* the game over) and until a start or resume request, the condition under
\* which the driver ticks is false.
C30_NoTickAfterResetUntilStart ==
    unstarted => ~(game_started /\ ~state.game_over)


\* C26: a payment method registered at runtime works at once: a checkout on
\* the strategy path of a cart that exists and holds items, with a registered
\* method id as payment_method, is processed and not turned away as an
\* unknown payment method.
C26_RegisteredMethodWorks ==
    [][(/\ reply'.call = "api_checkout"
        /\ ~reply'.bad
        /\ reply'.arg \in DOMAIN registered_payment_methods
        /\ CartId \in DOMAIN carts
        /\ carts[CartId].items # <<>>)
          => /\ reply'.status = 200
             /\ reply'.result.success]_vars

\* price * quantity summed over the items, last item first
RECURSIVE SumOfLines(_)
SumOfLines(items) ==
    IF Len(items) = 0 THEN 0
    ELSE SumOfLines(SubSeq(items, 1, Len(items) - 1))
         + items[Len(items)].quantity * items[Len(items)].price

\* C27: ShoppingCart.checkout fails with "No payment method selected" when no
\* strategy is set, whether or not the cart is empty, fails with "Cart is
\* empty" when a strategy is set and there is no item, and otherwise calls
\* the strategy's pay exactly once with the sum of price * quantity and
\* reports that sum as total; the cart is the same after the call.
C27_CheckoutOrderAndTotal ==
    [][reply'.call = "checkout" =>
          /\ carts' = carts
          /\ IF carts[CartId].payment_strategy = "none"
             THEN /\ ~reply'.result.success
                  /\ reply'.result.error = "No payment method selected"
                  /\ reply'.result.pays = <<>>
             ELSE IF carts[CartId].items = <<>>
             THEN /\ ~reply'.result.success
                  /\ reply'.result.error = "Cart is empty"
                  /\ reply'.result.pays = <<>>
             ELSE /\ reply'.result.success
                  /\ reply'.result.pays =
                        <<[strategy |-> carts[CartId].payment_strategy,
                           amount |-> SumOfLines(carts[CartId].items)]>>
                  /\ reply'.result.total = SumOfLines(carts[CartId].items)]_vars

\* checkout was called on a cart with two different lines and a strategy, and
\* paid 5 * 2 + 20 * 1
C27_Witness ==
    /\ reply.call = "checkout"
    /\ CartId \in DOMAIN carts
    /\ carts[CartId].payment_strategy = "paypal"
    /\ carts[CartId].items = <<[name |-> "Laptop", price |-> 5, quantity |-> 2],
                               [name |-> "Laptop", price |-> 20, quantity |-> 1]>>
    /\ reply.result.pays = <<[strategy |-> "paypal", amount |-> 30]>>
    /\ reply.result.total = 30

====
